---- MODULE Spec2Model ----
(***************************************************************************)
(* Model of the bancho.js connection engine: lib/BanchoClient.js (the      *)
(* connection lifecycle, the raw send, the identity cache) and             *)
(* lib/BanchoChannel.js (join / leave).                                    *)
(*                                                                         *)
(* Every handler of the client is an operator from the client's state (a   *)
(* record holding the object's fields and the environment the handler can  *)
(* touch: sockets, timers, promises) to the state after the handler; an    *)
(* action of the state machine is one run-to-completion callback of the    *)
(* Node.js event loop, or one call made by the application.                *)
(***************************************************************************)
EXTENDS Integers, Sequences, FiniteSets, TLC

\* ConnectStates
Disconnected == "Disconnected"
Connecting   == "Connecting"
Reconnecting == "Reconnecting"
Connected    == "Connected"
ConnectStates == {Disconnected, Connecting, Reconnecting, Connected}

\* Bounds of the exploration
MaxSockets      == 2   \* connect attempts that open a socket
MaxLiveSockets  == 3   \* the same, where progress is checked
MaxIgnoreTimers == 1   \* pending 1 ms timers that reset ignoreClose
MaxRaw          == 1   \* raw lines the application sends
MaxChanOps      == 2   \* join() and leave() calls that create a promise
MaxIdCalls      == 2   \* getUserById calls
MaxFrameSockets == 1   \* connections, where the data they receive is looked at

\* getUser clips a name to this many characters
MaxNameLength == 28

VARIABLES
    connectState,      \* this.connectState
    reconnect,         \* this.reconnect
    reconnectTimeout,  \* this.reconnectTimeout: 0 (null) or a timer handle
    ignoreClose,       \* this.ignoreClose
    connectCallback,   \* this.connectCallback: 0 (null) or the promise it settles
    client,            \* this.client: 0 (null) or the current socket
    timers,            \* handles of the scheduled 5000 ms reconnect timers
    ignoreTimers,      \* number of scheduled 1 ms timers resetting ignoreClose
    sockets,           \* sockets[s]: status of the s-th socket created by initSocket
    written,           \* written[s]: lines handed to client.write on socket s
    promises,          \* promises[p]: the promise created by the p-th connect() that opened a socket
    joinCallback,      \* the channel's joinCallback: 0 (null) or the promise it settles
    partCallback,      \* the channel's partCallback: 0 (null) or the promise it settles
    chanPromises,      \* the promises created by the channel's join() and leave()
    users,             \* this.users: lower-cased name -> the BanchoUser stored under it
    usersById,         \* this.usersById: id -> the BanchoUser stored under it
    channels,          \* this.channels: name -> the channel object stored under it
    osuApi,            \* this.osuApi is populated (an api key was given)
    lookups,           \* requests made to the osu! API, with their state
    idPromises,        \* the promises created by getUserById
    unparsedData,      \* unparsedData[s]: the buffer of the data handler of socket s
    received,          \* received[s]: everything socket s has received so far
    handed,            \* handed[s]: the commands the data handler of socket s gave to handleIrcCommand
    stream,            \* what the server sends on a connection
    event,             \* the event handled by the callback that ran last
    emitted,           \* events emitted by the handler that ran last, in order
    lastStateEvent,    \* state carried by the latest 'state' notification ("" if none)
    ret,               \* what the call made in the last step returned to its caller
    crashed            \* an exception escaped an event-loop callback

vars == <<connectState, reconnect, reconnectTimeout, ignoreClose, connectCallback,
          client, timers, ignoreTimers, sockets, written, promises, joinCallback,
          partCallback, chanPromises, users, usersById, channels, osuApi, lookups,
          idPromises, unparsedData, received, handed, stream, event,
          emitted, lastStateEvent, ret, crashed>>

NoRet == [op |-> "none", arg |-> "", outcome |-> "none", value |-> 0]

NoEvent == [kind |-> "none", socket |-> 0, arg |-> ""]

\* The client as one record, at the start of a handler: nothing emitted,
\* nothing returned, nothing thrown yet.
This ==
    [connectState |-> connectState, reconnect |-> reconnect,
     reconnectTimeout |-> reconnectTimeout, ignoreClose |-> ignoreClose,
     connectCallback |-> connectCallback, client |-> client, timers |-> timers,
     ignoreTimers |-> ignoreTimers, sockets |-> sockets, written |-> written,
     promises |-> promises, joinCallback |-> joinCallback,
     partCallback |-> partCallback, chanPromises |-> chanPromises, users |-> users,
     usersById |-> usersById, channels |-> channels, osuApi |-> osuApi,
     lookups |-> lookups, idPromises |-> idPromises, unparsedData |-> unparsedData,
     received |-> received, handed |-> handed, stream |-> stream, event |-> NoEvent,
     emitted |-> <<>>, lastStateEvent |-> lastStateEvent,
     ret |-> NoRet, thrown |-> FALSE]

Live == {"opening", "open", "registered"}

-----------------------------------------------------------------------------
\* EventEmitter.emit(name, ...): the client registers its own 'error' listener,
\* so emitting never throws.
emit(c, name, state, err) ==
    [c EXCEPT !.emitted = Append(@, <<name, state, err>>),
              !.lastStateEvent = IF name = "state" THEN state ELSE @]

isConnected(c) == c.connectState = Connected

isDisconnected(c) == c.connectState = Disconnected

\* updateState without the same-state check
updateState_always(c, newConnectState, err) ==
    LET c1 == [c EXCEPT !.connectState = newConnectState]
        c2 == IF isConnected(c1) THEN emit(c1, "connected", "", "") ELSE c1
        c3 == IF isDisconnected(c2) THEN emit(c2, "disconnected", "", err) ELSE c2
    IN  emit(c3, "state", c3.connectState, err)

updateState(c, newConnectState, err) ==
    IF newConnectState = c.connectState THEN c
    ELSE IF newConnectState \notin ConnectStates THEN [c EXCEPT !.thrown = TRUE]
    ELSE LET c1 == [c EXCEPT !.connectState = newConnectState]
             c2 == IF isConnected(c1) THEN emit(c1, "connected", "", "") ELSE c1
             c3 == IF isDisconnected(c2) THEN emit(c2, "disconnected", "", err) ELSE c2
         IN  emit(c3, "state", c3.connectState, err)

\* net.Socket.write on the current socket
write(c, line) ==
    IF c.client = 0 THEN [c EXCEPT !.thrown = TRUE]
    ELSE [c EXCEPT !.written[c.client] = Append(@, line)]

send(c, data, throwIfDisconnected) ==
    IF c.connectState = Connected \/ c.connectState = Connecting
    THEN write(c, data)
    ELSE IF throwIfDisconnected THEN [c EXCEPT !.thrown = TRUE]
    ELSE c

\* net.Socket.destroy: the socket's 'close' event follows
destroy(c, s) ==
    IF s # 0 /\ c.sockets[s] \in Live THEN [c EXCEPT !.sockets[s] = "closing"] ELSE c

clearTimeout(c, t) == [c EXCEPT !.timers = @ \ {t}]

FreshTimer(c) ==
    CHOOSE t \in 1..(Cardinality(c.timers) + 2) :
        /\ t \notin c.timers \cup {c.reconnectTimeout}
        /\ \A u \in 1..(t - 1) : u \in c.timers \cup {c.reconnectTimeout}

\* onClose that schedules a new timer without clearing the pending one
onClose_keepTimer(c, err) ==
    IF c.connectState = Disconnected THEN c
    ELSE IF ~c.reconnect THEN updateState(c, Disconnected, err)
    ELSE LET c1 == updateState(c, Reconnecting, err)
             t  == FreshTimer(c1)
         IN  [c1 EXCEPT !.timers = @ \cup {t}, !.reconnectTimeout = t]

onClose(c, err) ==
    IF c.connectState = Disconnected THEN c
    ELSE IF ~c.reconnect THEN updateState(c, Disconnected, err)
    ELSE LET c1 == updateState(c, Reconnecting, err)
             c2 == IF c1.reconnectTimeout # 0
                   THEN clearTimeout(c1, c1.reconnectTimeout) ELSE c1
             t  == FreshTimer(c2)
         IN  [c2 EXCEPT !.timers = @ \cup {t}, !.reconnectTimeout = t]

\* initSocket: a new socket with its handlers; client.connect starts the TCP
\* connection of that socket.
initSocket(c) ==
    LET s == Len(c.sockets) + 1
    IN  [c EXCEPT !.sockets = Append(@, "opening"),
                  !.written = Append(@, <<>>),
                  !.unparsedData = Append(@, ""),
                  !.received = Append(@, ""),
                  !.handed = Append(@, <<>>),
                  !.client = s]

\* connect() without the check of the state
connect_unchecked(c, who) ==
    LET p  == Len(c.promises) + 1
        c1 == [c EXCEPT !.promises = Append(@, [who |-> who, status |-> "pending", calls |-> 0]),
                        !.connectCallback = p]
        c2 == updateState(c1, Connecting, "")
        c3 == [c2 EXCEPT !.reconnect = TRUE]
        c4 == initSocket(c3)
    IN  [c4 EXCEPT !.ret = [op |-> "connect", arg |-> "", outcome |-> "pending", value |-> p]]

\* connect(): the executor of the returned promise runs synchronously.
\* who is "caller" or "internal" (the reconnect timer's re-run).
connect(c, who) ==
    IF c.connectState = Connected \/ c.connectState = Connecting
    THEN [c EXCEPT !.ret = [op |-> "connect", arg |-> "", outcome |-> "rejected", value |-> 0]]
    ELSE LET p  == Len(c.promises) + 1
             c1 == [c EXCEPT !.promises = Append(@, [who |-> who, status |-> "pending", calls |-> 0]),
                             !.connectCallback = p]
             c2 == updateState(c1, Connecting, "")
             c3 == [c2 EXCEPT !.reconnect = TRUE]
             c4 == initSocket(c3)
         IN  [c4 EXCEPT !.ret = [op |-> "connect", arg |-> "", outcome |-> "pending", value |-> p]]

\* the timer's callback without putting the old connect callback back
reconnectTimer_noRestore(c) ==
    LET c1 == IF c.reconnect THEN connect(c, "internal") ELSE c
    IN  [c1 EXCEPT !.reconnectTimeout = 0]

\* the callback of the 5000 ms timer set by onClose
reconnectTimer(c) ==
    LET c1 == IF c.reconnect
              THEN LET oldCallback == c.connectCallback
                       c2 == connect(c, "internal")
                   IN  [c2 EXCEPT !.connectCallback = oldCallback]
              ELSE c
    IN  [c1 EXCEPT !.reconnectTimeout = 0]

\* disconnect() that leaves the reconnect timer scheduled
disconnect_keepTimer(c) ==
    IF c.connectState = Disconnected THEN c
    ELSE LET c1 == IF isConnected(c) THEN send(c, "QUIT", TRUE)
                   ELSE IF c.connectState = Connecting THEN destroy(c, c.client)
                   ELSE c
             c3 == updateState(c1, Disconnected, "")
         IN  [c3 EXCEPT !.ignoreTimers = @ + 1]

disconnect(c) ==
    IF c.connectState = Disconnected THEN c
    ELSE LET c1 == IF isConnected(c) THEN send(c, "QUIT", TRUE)
                   ELSE IF c.connectState = Connecting THEN destroy(c, c.client)
                   ELSE c
             c2 == IF c1.reconnectTimeout # 0
                   THEN [clearTimeout(c1, c1.reconnectTimeout) EXCEPT !.reconnectTimeout = 0]
                   ELSE c1
             c3 == updateState(c2, Disconnected, "")
         IN  [c3 EXCEPT !.ignoreTimers = @ + 1]

\* the promise's resolve / reject: settling a settled promise changes nothing
settle(c, p, err) ==
    [c EXCEPT !.promises[p].calls = @ + 1,
              !.promises[p].status =
                  IF @ = "pending" THEN (IF err = "" THEN "resolved" ELSE "rejected") ELSE @]

\* callConnectCallback that leaves the callback stored after calling it
callConnectCallback_keep(c, arg, erase, throwIfNonexistant) ==
    IF c.connectCallback # 0
    THEN settle(c, c.connectCallback, arg)
    ELSE IF throwIfNonexistant THEN [c EXCEPT !.thrown = TRUE]
    ELSE c

callConnectCallback(c, arg, erase, throwIfNonexistant) ==
    IF c.connectCallback # 0
    THEN LET c1 == settle(c, c.connectCallback, arg)
         IN  IF erase THEN [c1 EXCEPT !.connectCallback = 0] ELSE c1
    ELSE IF throwIfNonexistant THEN [c EXCEPT !.thrown = TRUE]
    ELSE c

\* the socket's handlers installed by initSocket
onSocketError(c, err) == onClose(emit(c, "error", "", err), err)

onSocketClose(c) == IF ~c.ignoreClose THEN onClose(c, "Connection closed") ELSE c

onSocketTimeout(c) ==
    LET err == "Timeout reached"
        c1  == [c EXCEPT !.ignoreClose = TRUE]
        c2  == destroy(c1, c1.client)
        c3  == emit(c2, "error", "", err)
        c4  == onClose(c3, err)
    IN  [c4 EXCEPT !.ignoreTimers = @ + 1]

\* the callback given to client.connect: the three authentication lines;
\* an exception ends the callback
onConnect(c) ==
    LET c1 == send(c, "PASS", TRUE)
        c2 == IF c1.thrown THEN c1 ELSE send(c1, "USER", TRUE)
    IN  IF c2.thrown THEN c2 ELSE send(c2, "NICK", TRUE)

\* The handler of the welcome reply in the IrcCommands table: the transition
\* Connecting -> Connected of the lifecycle, resolving the connect promise.
welcome(c) ==
    IF c.connectState = Connecting
    THEN callConnectCallback(updateState(c, Connected, ""), "", TRUE, FALSE)
    ELSE c

\* The handler of the bad-authentication reply in the IrcCommands table: the
\* failure is emitted, the connect promise is rejected with it, and the client
\* takes the path of an unexpected close.
authFailure(c) ==
    LET err == "Bancho Auth failed"
    IN  onClose(callConnectCallback(emit(c, "error", "", err), err, TRUE, FALSE), err)

-----------------------------------------------------------------------------
\* The data handler and the command router. A line is a string.

\* String.prototype.indexOf for a one-character search string: the 0-based
\* position of its first occurrence, or -1
RECURSIVE indexOf(_, _)
indexOf(str, ch) ==
    IF str = "" THEN -1
    ELSE IF Head(str) = ch THEN 0
    ELSE LET rest == indexOf(Tail(str), ch)
         IN  IF rest = -1 THEN -1 ELSE rest + 1

\* str.substring(from, to) and str.substring(from)
substring(str, from, to) == SubSeq(str, from + 1, to)

substringFrom(str, from) == SubSeq(str, from + 1, Len(str))

\* data.toString().replace(/\r/g, "")
RECURSIVE removeCR(_)
removeCR(data) ==
    IF data = "" THEN ""
    ELSE (IF Head(data) = "\r" THEN "" ELSE Head(data)) \o removeCR(Tail(data))

\* command.split(" ")
RECURSIVE split(_)
split(command) ==
    LET index == indexOf(command, " ")
    IN  IF index = -1 THEN <<command>>
        ELSE <<substring(command, 0, index)>> \o split(substringFrom(command, index + 1))

\* splits.join(" ")
RECURSIVE joinSplits(_)
joinSplits(splits) ==
    IF splits = <<>> THEN ""
    ELSE IF Len(splits) = 1 THEN splits[1]
    ELSE splits[1] \o " " \o joinSplits(Tail(splits))

ignoredSplits == {"312", "333", "366", "372", "375", "376", "QUIT"}

\* The verbs of the lines of the model that the IrcCommands table holds a
\* handler for; the handler of a private message emits it to the application.
IrcCommands == {"PRIVMSG"}

handleCommand(c, verb, splits) == emit(c, "PM", "", joinSplits(splits))

\* handleIrcCommand, called by the data handler of socket s. splits[0] and
\* splits[1] of the code are the first and the second element of splits here.
handleIrcCommand(c, s, command) ==
    LET splits == split(command)
        c1 == [c EXCEPT !.handed[s] = Append(@, command)]
    IN  IF Len(splits) >= 2 /\ splits[2] \in ignoredSplits THEN c1
        ELSE IF splits[1] = "PING"
        THEN send(c1, "PONG " \o joinSplits(Tail(splits)), TRUE)
        ELSE IF Len(splits) >= 2 /\ splits[2] \in IrcCommands
        THEN handleCommand(c1, splits[2], splits)
        ELSE c1

\* the loop of the data handler: an exception of handleIrcCommand ends it
RECURSIVE drain(_, _)
drain(c, s) ==
    LET index == indexOf(c.unparsedData[s], "\n")
    IN  IF index = -1 THEN c
        ELSE LET command == substring(c.unparsedData[s], 0, index)
                 c1 == [c EXCEPT !.unparsedData[s] = substringFrom(@, index + 1)]
                 c2 == handleIrcCommand(c1, s, command)
             IN  IF c2.thrown THEN c2 ELSE drain(c2, s)

\* the data handler that appends the chunk as it came
onSocketData_keepCR(c, s, data) ==
    drain([c EXCEPT !.unparsedData[s] = @ \o data], s)

\* the 'data' handler installed by initSocket on socket s
onSocketData(c, s, data) ==
    drain([c EXCEPT !.unparsedData[s] = @ \o removeCR(data)], s)

-----------------------------------------------------------------------------
\* The identity cache. A string is the sequence of its characters.

\* String.prototype.toLowerCase, on the characters the names are made of
toLowerCase(str) ==
    [i \in 1..Len(str) |->
        CASE str[i] = "A" -> "a"
          [] str[i] = "B" -> "b"
          [] OTHER -> str[i]]

\* str.replace(/ /g, "_")
replaceSpaces(str) == [i \in 1..Len(str) |-> IF str[i] = " " THEN "_" ELSE str[i]]

\* str.split("\n")[0]
RECURSIVE firstLine(_)
firstLine(str) ==
    IF str = <<>> \/ Head(str) = "\n" THEN <<>> ELSE <<Head(str)>> \o firstLine(Tail(str))

\* str.substring(0, n)
substring0(str, n) == SubSeq(str, 1, IF Len(str) < n THEN Len(str) ELSE n)

\* the properties every object literal inherits, among the lower-case names
Inherited == { <<"c", "o", "n", "s", "t", "r", "u", "c", "t", "o", "r">> }

\* this.users[key]: the stored BanchoUser, the inherited property, or undefined (0)
lookup(c, key) ==
    IF key \in DOMAIN c.users THEN c.users[key].id
    ELSE IF key \in Inherited THEN -1
    ELSE 0

\* getUser that stores the new user under the name as given, not lower-cased
getUser_storeAsGiven(c, name) ==
    LET username == substring0(firstLine(replaceSpaces(name)), MaxNameLength)
    IN  IF lookup(c, toLowerCase(username)) # 0
        THEN [c EXCEPT !.ret = [op |-> "getUser", arg |-> name, outcome |-> "returned",
                                value |-> lookup(c, toLowerCase(username))]]
        ELSE LET id == Cardinality(DOMAIN c.users) + 1
             IN  [c EXCEPT !.users = (username :> [id |-> id, username |-> username]) @@ @,
                           !.ret = [op |-> "getUser", arg |-> name, outcome |-> "returned",
                                    value |-> id]]

getUser(c, name) ==
    LET username == substring0(firstLine(replaceSpaces(name)), MaxNameLength)
    IN  IF lookup(c, toLowerCase(username)) # 0
        THEN [c EXCEPT !.ret = [op |-> "getUser", arg |-> name, outcome |-> "returned",
                                value |-> lookup(c, toLowerCase(username))]]
        ELSE LET id == Cardinality(DOMAIN c.users) + 1
             IN  [c EXCEPT !.users = (toLowerCase(username) :> [id |-> id, username |-> username]) @@ @,
                           !.ret = [op |-> "getUser", arg |-> name, outcome |-> "returned",
                                    value |-> id]]

\* The channel cache. A channel name is a string.

\* the character U+0007, which getChannel looks for in a name
Bell == ""

\* str.indexOf(prefix) == 0
startsWith(str, prefix) ==
    Len(str) >= Len(prefix) /\ SubSeq(str, 1, Len(prefix)) = prefix

\* getChannel without the check of the name
getChannel_unchecked(c, channelName) ==
    IF channelName \in DOMAIN c.channels
    THEN [c EXCEPT !.ret = [op |-> "getChannel", arg |-> channelName, outcome |-> "returned",
                            value |-> c.channels[channelName].id]]
    ELSE LET id   == Cardinality(DOMAIN c.channels) + 1
             kind == IF startsWith(channelName, "#mp_") /\ c.osuApi
                     THEN "BanchoMultiplayerChannel" ELSE "BanchoChannel"
         IN  [c EXCEPT !.channels = (channelName :> [id |-> id, kind |-> kind]) @@ @,
                       !.ret = [op |-> "getChannel", arg |-> channelName, outcome |-> "returned",
                                value |-> id]]

\* getChannel: a name that passes the check starts with "#", so it is never
\* the name of a property that this.channels inherits
getChannel(c, channelName) ==
    IF \/ indexOf(channelName, "#") # 0
       \/ indexOf(channelName, ",") # -1
       \/ indexOf(channelName, Bell) # -1
    THEN [c EXCEPT !.thrown = TRUE]
    ELSE IF channelName \in DOMAIN c.channels
    THEN [c EXCEPT !.ret = [op |-> "getChannel", arg |-> channelName, outcome |-> "returned",
                            value |-> c.channels[channelName].id]]
    ELSE LET id   == Cardinality(DOMAIN c.channels) + 1
             kind == IF startsWith(channelName, "#mp_") /\ c.osuApi
                     THEN "BanchoMultiplayerChannel" ELSE "BanchoChannel"
         IN  [c EXCEPT !.channels = (channelName :> [id |-> id, kind |-> kind]) @@ @,
                       !.ret = [op |-> "getChannel", arg |-> channelName, outcome |-> "returned",
                                value |-> id]]

\* isNaN of an id given as a string without blanks, sign or fraction: the
\* empty string converts to 0, a string of digits to its number
isNaN(userid) ==
    \E i \in 1..Len(userid) :
        SubSeq(userid, i, i) \notin {"0", "1", "2", "3", "4", "5", "6", "7", "8", "9"}

\* resolve / reject of a promise made by getUserById
settleId(c, p, status, value) ==
    [c EXCEPT !.idPromises[p] =
        IF @.status = "pending" THEN [status |-> status, value |-> value] ELSE @]

\* getUserById: the executor of the returned promise runs synchronously; an
\* exception of the executor (this.osuApi is undefined) rejects the promise
getUserById(c, userid) ==
    LET p  == Len(c.idPromises) + 1
        c1 == [c EXCEPT !.idPromises = Append(@, [status |-> "pending", value |-> 0])]
        c2 == IF isNaN(userid) THEN settleId(c1, p, "rejected", 0) ELSE c1
        c3 == IF userid \in DOMAIN c2.usersById
              THEN settleId(c2, p, "resolved", c2.usersById[userid])
              ELSE IF ~c2.osuApi
              THEN settleId(c2, p, "rejected", 0)
              ELSE [c2 EXCEPT !.lookups = Append(@, [userid |-> userid, promise |-> p,
                                                     status |-> "pending"])]
    IN  [c3 EXCEPT !.ret = [op |-> "getUserById", arg |-> userid, outcome |-> "promise",
                            value |-> p]]

\* BanchoUser.updateFromAPI: the user takes the id of the API's answer and is
\* from then on the user known under that id
updateFromAPI(c, user, apiUser) ==
    [c EXCEPT !.usersById = (apiUser.id :> user) @@ @]

\* the callbacks given to then() by getUserById
lookupFulfilled(c, l, apiUser) ==
    LET c1 == getUser([c EXCEPT !.lookups[l].status = "answered"], apiUser.username)
        c2 == updateFromAPI(c1, c1.ret.value, apiUser)
    IN  settleId([c2 EXCEPT !.ret = NoRet], c.lookups[l].promise, "resolved", apiUser.id)

lookupRejected(c, l) ==
    settleId([c EXCEPT !.lookups[l].status = "failed"], c.lookups[l].promise, "rejected", 0)

-----------------------------------------------------------------------------
\* BanchoChannel, for the one channel of the model
ChannelName == "#a"

\* _joinOrPart: the stored callback itself is returned while one is stored;
\* otherwise a new promise, whose executor sends the line and stores the
\* callback. An exception of the executor rejects the promise.
_joinOrPart(c, action, callbackProp) ==
    IF action # "JOIN" /\ action # "PART" THEN [c EXCEPT !.thrown = TRUE]
    ELSE IF c[callbackProp] # 0
    THEN [c EXCEPT !.ret = [op |-> action, arg |-> ChannelName,
                            outcome |-> "callback", value |-> c[callbackProp]]]
    ELSE LET p  == Len(c.chanPromises) + 1
             c1 == send(c, action \o " " \o ChannelName, TRUE)
             c2 == IF c1.thrown
                   THEN [c1 EXCEPT !.thrown = FALSE,
                                   !.chanPromises = Append(@, [action |-> action, socket |-> 0,
                                                               status |-> "rejected", calls |-> 0,
                                                               err |-> "Currently disconnected!"])]
                   ELSE [c1 EXCEPT ![callbackProp] = p,
                                   !.chanPromises = Append(@, [action |-> action, socket |-> c.client,
                                                               status |-> "pending", calls |-> 0,
                                                               err |-> ""])]
         IN  [c2 EXCEPT !.ret = [op |-> action, arg |-> ChannelName,
                                 outcome |-> "promise", value |-> p]]

join(c) == _joinOrPart(c, "JOIN", "joinCallback")

leave(c) == _joinOrPart(c, "PART", "partCallback")

\* the stored callback without its last statement
channelCallback_keepSlot(c, callbackProp, err) ==
    LET p == c[callbackProp]
    IN  [c EXCEPT !.chanPromises[p] =
                      [@ EXCEPT !.calls = @ + 1,
                                !.status = IF err = "" THEN "resolved" ELSE "rejected",
                                !.err = err]]

\* the callback stored by _joinOrPart, called with the server's answer; its
\* promise is pending, the callback being dropped with its first call
channelCallback(c, callbackProp, err) ==
    LET p == c[callbackProp]
    IN  [c EXCEPT !.chanPromises[p] =
                      [@ EXCEPT !.calls = @ + 1,
                                !.status = IF err = "" THEN "resolved" ELSE "rejected",
                                !.err = err],
                  ![callbackProp] = 0]

-----------------------------------------------------------------------------
Bounded(c) ==
    /\ c.ignoreTimers <= MaxIgnoreTimers
    /\ Len(c.chanPromises) <= MaxChanOps
    /\ Len(c.idPromises) <= MaxIdCalls

\* the step opens no socket beyond the n-th
WithinSockets(n) == Len(sockets') <= n

\* the state after a handler that ran to completion
Apply(c) ==
    /\ Bounded(c)
    /\ connectState' = c.connectState
    /\ reconnect' = c.reconnect
    /\ reconnectTimeout' = c.reconnectTimeout
    /\ ignoreClose' = c.ignoreClose
    /\ connectCallback' = c.connectCallback
    /\ client' = c.client
    /\ timers' = c.timers
    /\ ignoreTimers' = c.ignoreTimers
    /\ sockets' = c.sockets
    /\ written' = c.written
    /\ promises' = c.promises
    /\ joinCallback' = c.joinCallback
    /\ partCallback' = c.partCallback
    /\ chanPromises' = c.chanPromises
    /\ users' = c.users
    /\ usersById' = c.usersById
    /\ channels' = c.channels
    /\ osuApi' = c.osuApi
    /\ lookups' = c.lookups
    /\ idPromises' = c.idPromises
    /\ unparsedData' = c.unparsedData
    /\ received' = c.received
    /\ handed' = c.handed
    /\ stream' = c.stream
    /\ event' = c.event
    /\ emitted' = c.emitted
    /\ lastStateEvent' = c.lastStateEvent
    /\ ret' = c.ret

\* a call made by the application: an exception goes back to the caller
Call(c, op, arg) ==
    /\ ~crashed
    /\ Apply(IF c.thrown
             THEN [c EXCEPT !.ret = [op |-> op, arg |-> arg, outcome |-> "threw", value |-> 0]]
             ELSE IF c.ret = NoRet
             THEN [c EXCEPT !.ret = [op |-> op, arg |-> arg, outcome |-> "returned", value |-> 0]]
             ELSE c)
    /\ UNCHANGED crashed

\* a callback of the event loop: an exception that escapes it is uncaught
Callback(c) ==
    /\ ~crashed
    /\ Apply([c EXCEPT !.ret = NoRet])
    /\ crashed' = c.thrown

\* the client after its constructor
InitClient ==
    /\ connectState = Disconnected
    /\ reconnect = TRUE
    /\ reconnectTimeout = 0
    /\ ignoreClose = FALSE
    /\ connectCallback = 0
    /\ client = 0
    /\ timers = {}
    /\ ignoreTimers = 0
    /\ sockets = <<>>
    /\ written = <<>>
    /\ promises = <<>>
    /\ joinCallback = 0
    /\ partCallback = 0
    /\ chanPromises = <<>>
    /\ users = <<>>
    /\ usersById = <<>>
    /\ channels = <<>>
    /\ lookups = <<>>
    /\ idPromises = <<>>
    /\ unparsedData = <<>>
    /\ received = <<>>
    /\ handed = <<>>
    /\ event = NoEvent
    /\ emitted = <<>>
    /\ lastStateEvent = ""
    /\ ret = NoRet
    /\ crashed = FALSE

\* a client made without an api key, and a server that sends nothing but the
\* answers to the client's lines
Init ==
    /\ InitClient
    /\ osuApi = FALSE
    /\ stream = ""

\* ---- calls of the application ----
Connect == Call(connect(This, "caller"), "connect", "")

Disconnect == Call(disconnect(This), "disconnect", "")

\* lines of the given kind written so far, over all sockets
RECURSIVE Count(_, _)
Count(seq, x) ==
    IF seq = <<>> THEN 0 ELSE (IF Head(seq) = x THEN 1 ELSE 0) + Count(Tail(seq), x)

RECURSIVE Written(_, _)
Written(x, n) == IF n = 0 THEN 0 ELSE Count(written[n], x) + Written(x, n - 1)

Send ==
    \E throwIfDisconnected \in BOOLEAN :
        /\ Written("RAW", Len(written)) < MaxRaw
        /\ Call(send(This, "RAW", throwIfDisconnected), "send",
                IF throwIfDisconnected THEN "throwIfDisconnected" ELSE "")

\* a name of MaxNameLength characters, and names that differ from one another only in case, in
\* space against underscore, behind the first newline or behind the 28th character
Long == [i \in 1..MaxNameLength |-> "a"]

UserNames ==
    { <<"A", " ", "b">>,
      <<"a", "_", "B", "\n", "b">>,
      Long \o <<"b">>,
      <<"A">> \o Tail(Long) \o <<"a", "b">>,
      <<"c", "o", "n", "s", "t", "r", "u", "c", "t", "o", "r">> }

GetUser == \E name \in UserNames : Call(getUser(This, name), "getUser", name)

Join == Call(join(This), "JOIN", ChannelName)

Leave == Call(leave(This), "PART", ChannelName)

\* names that pass the check of getChannel, and names that fail each part of it
ChannelNames ==
    { "#a", "#A", "#mp_1", "", "a", "a#", "#a,b", ",", "#a" \o Bell }

GetChannel ==
    \E channelName \in ChannelNames :
        Call(getChannel(This, channelName), "getChannel", channelName)

UserIds == { "7", "18", "abc", "1x" }

GetUserById == \E userid \in UserIds : Call(getUserById(This, userid), "getUserById", userid)

\* the user the osu! API knows under an id
ApiUser(userid) ==
    [id |-> userid,
     username |-> IF userid = "7" THEN <<"A", " ", "b">> ELSE <<"a", "_", "B">>]

\* The osu! API answers a request: with the user of a numeric id, or with a
\* failure (no such user, or the request failed).
LookupAnswer ==
    \E l \in 1..Len(lookups) :
        /\ lookups[l].status = "pending"
        /\ \/ /\ ~isNaN(lookups[l].userid)
              /\ Callback(lookupFulfilled([This EXCEPT !.event = [kind |-> "lookup", socket |-> 0,
                                                                 arg |-> lookups[l].userid]],
                                          l, ApiUser(lookups[l].userid)))
           \/ Callback(lookupRejected([This EXCEPT !.event = [kind |-> "lookupFailed", socket |-> 0,
                                                             arg |-> lookups[l].userid]], l))

\* ---- events of the sockets ----
SocketConnect ==
    \E s \in 1..Len(sockets) :
        /\ sockets[s] = "opening"
        /\ Callback(onConnect([This EXCEPT !.sockets[s] = "open",
                                           !.event = [kind |-> "connect", socket |-> s, arg |-> ""]]))

SocketError ==
    \E s \in 1..Len(sockets) :
        /\ sockets[s] \in Live
        /\ Callback(onSocketError([This EXCEPT !.sockets[s] = "closing",
                                               !.event = [kind |-> "error", socket |-> s, arg |-> ""]],
                                  "socket error"))

\* the 'close' event of a socket: the server closed the connection, or the
\* socket was destroyed (by destroy() or after an error)
SocketClose ==
    \E s \in 1..Len(sockets) :
        /\ sockets[s] \in {"open", "registered", "closing"}
        /\ Callback(onSocketClose([This EXCEPT !.sockets[s] = "closed",
                                               !.event = [kind |-> "close", socket |-> s, arg |-> ""]]))

\* the part of SocketClose that Node.js guarantees: a destroyed socket emits 'close'
CloseDestroyed ==
    \E s \in 1..Len(sockets) :
        /\ sockets[s] = "closing"
        /\ Callback(onSocketClose([This EXCEPT !.sockets[s] = "closed",
                                               !.event = [kind |-> "close", socket |-> s, arg |-> ""]]))

SocketTimeout ==
    \E s \in 1..Len(sockets) :
        /\ sockets[s] \in Live
        /\ Callback(onSocketTimeout([This EXCEPT !.event = [kind |-> "timeout", socket |-> s, arg |-> ""]]))

\* the server accepts the registration of socket s and sends the welcome line
Welcome ==
    \E s \in 1..Len(sockets) :
        /\ sockets[s] = "open"
        /\ \E i \in 1..Len(written[s]) : written[s][i] = "NICK"
        /\ Callback(welcome([This EXCEPT !.sockets[s] = "registered",
                                         !.event = [kind |-> "welcome", socket |-> s, arg |-> ""]]))

\* the server refuses the registration of socket s
AuthFailure ==
    \E s \in 1..Len(sockets) :
        /\ sockets[s] = "open"
        /\ \E i \in 1..Len(written[s]) : written[s][i] = "NICK"
        /\ Callback(authFailure([This EXCEPT !.event = [kind |-> "authFailure", socket |-> s,
                                                        arg |-> ""]]))

\* The server's answer to the JOIN or PART line of a pending promise arrives on
\* the socket the line was written to; the handler of the IrcCommands table calls
\* the channel's stored callback, without an error or with the server's reason.
ChannelAnswer ==
    \E callbackProp \in {"joinCallback", "partCallback"}, err \in {"", "No such channel"} :
        /\ This[callbackProp] # 0
        /\ sockets[chanPromises[This[callbackProp]].socket] = "registered"
        /\ Callback(channelCallback([This EXCEPT !.event = [kind |-> callbackProp,
                                                            socket |-> chanPromises[This[callbackProp]].socket,
                                                            arg |-> err]],
                                    callbackProp, err))

\* what the server sends on a connection, in the runs that look at the data handler
Streams ==
    { "a\r\nPING :b\r\nc",
      ":s 372\nPING 372\n",
      ":u PRIVMSG m\n\nPING\n",
      "\r\r\n\rx\ry\n\n" }

\* Socket s receives the next bytes of the stream, cut anywhere. A socket that
\* was destroyed or had an error receives nothing more.
SocketData ==
    \E s \in 1..Len(sockets) :
        /\ sockets[s] \in {"open", "registered"}
        /\ \E n \in 1..(Len(stream) - Len(received[s])) :
               LET data == SubSeq(stream, Len(received[s]) + 1, Len(received[s]) + n)
               IN  Callback(onSocketData([This EXCEPT !.received[s] = @ \o data,
                                                      !.event = [kind |-> "data", socket |-> s,
                                                                 arg |-> ""]],
                                         s, data))

\* ---- timers ----
\* a 1 ms timer set by the timeout handler or by disconnect()
IgnoreCloseTimer ==
    /\ ignoreTimers > 0
    /\ Callback([This EXCEPT !.ignoreClose = FALSE, !.ignoreTimers = @ - 1,
                             !.event = [kind |-> "ignoreCloseTimer", socket |-> 0, arg |-> ""]])

\* A 5000 ms timer fires after the 1 ms timers and after the 'close' events of
\* the sockets destroyed before it was set.
ReconnectTimer ==
    \E t \in timers :
        /\ ignoreTimers = 0
        /\ \A s \in 1..Len(sockets) : sockets[s] # "closing"
        /\ Callback(reconnectTimer([This EXCEPT !.timers = @ \ {t},
                                             !.event = [kind |-> "reconnectTimer", socket |-> 0, arg |-> ""]]))

\* the steps that open no socket
Events ==
    \/ Disconnect
    \/ SocketConnect
    \/ SocketError
    \/ SocketClose
    \/ SocketTimeout
    \/ Welcome
    \/ IgnoreCloseTimer

Next ==
    \/ Connect /\ WithinSockets(MaxSockets)
    \/ ReconnectTimer /\ WithinSockets(MaxSockets)
    \/ Events

Spec == Init /\ [][Next]_vars

\* Scheduled timers fire and destroyed sockets emit 'close'. The reconnect timer
\* is strongly fair: its 5000 ms pass although shorter timers come and go.
LiveNext ==
    \/ Connect /\ WithinSockets(MaxLiveSockets)
    \/ ReconnectTimer /\ WithinSockets(MaxLiveSockets)
    \/ Events

LiveSpec ==
    /\ Init
    /\ [][LiveNext]_vars
    /\ SF_vars(ReconnectTimer /\ WithinSockets(MaxLiveSockets))
    /\ WF_vars(IgnoreCloseTimer)
    /\ WF_vars(CloseDestroyed)

\* the lifecycle together with the channel's join() and leave()
NextChannel ==
    \/ Next
    \/ Join
    \/ Leave
    \/ ChannelAnswer

SpecChannel == Init /\ [][NextChannel]_vars

\* the lifecycle together with the identity cache
NextUsers ==
    \/ Next
    \/ GetUser

SpecUsers == Init /\ [][NextUsers]_vars

\* the identity cache of a client made with or without an api key
InitCache ==
    /\ InitClient
    /\ osuApi \in BOOLEAN
    /\ stream = ""

NextCache ==
    \/ GetChannel
    \/ GetUserById
    \/ LookupAnswer

SpecCache == InitCache /\ [][NextCache]_vars

\* the lifecycle together with the server's refusal of the registration
NextCallback ==
    \/ Next
    \/ AuthFailure

SpecCallback == Init /\ [][NextCallback]_vars

\* the lifecycle together with the data the server sends
InitFrame ==
    /\ InitClient
    /\ osuApi = FALSE
    /\ stream \in Streams

NextFrame ==
    \/ Connect /\ WithinSockets(MaxFrameSockets)
    \/ Events
    \/ SocketData

SpecFrame == InitFrame /\ [][NextFrame]_vars

\* the lifecycle together with the application's raw sends
NextSend ==
    \/ Next
    \/ Send

SpecSend == Init /\ [][NextSend]_vars

TypeOK ==
    /\ connectState \in ConnectStates
    /\ reconnect \in BOOLEAN
    /\ ignoreClose \in BOOLEAN
    /\ Len(sockets) = Len(written)
    /\ Len(sockets) = Len(promises)
    /\ client \in 0..Len(sockets)
    /\ connectCallback \in 0..Len(promises)
    /\ joinCallback \in 0..Len(chanPromises)
    /\ partCallback \in 0..Len(chanPromises)
-----------------------------------------------------------------------------
\* Claims about the connection lifecycle

Names(e) == [i \in 1..Len(e) |-> e[i][1]]

StateEvents(e) == SelectSeq(e, LAMBDA x : x[1] = "state")

\* C1: disconnect() leaves the state Disconnected with no reconnect timer
\* scheduled, and from then on no socket event and no timer changes the state
\* or opens a socket: only a connect() call of the application does.
C1_DisconnectIsTerminal ==
    [][ /\ ret'.op = "disconnect" =>
            connectState' = Disconnected /\ timers' = {} /\ reconnectTimeout' = 0
        /\ connectState = Disconnected /\ ret'.op # "connect" =>
            /\ connectState' = Disconnected
            /\ Len(sockets') = Len(sockets)
            /\ timers' = {} ]_vars

\* events arrived after a disconnect() made while reconnecting
C1_Witness ==
    /\ connectState = Disconnected
    /\ lastStateEvent = Disconnected
    /\ ret.op = "none"
    /\ Len(sockets) >= 2
    /\ \A s \in 1..Len(sockets) : sockets[s] = "closed"

\* C2: connect() while Connecting or Connected is rejected and changes nothing.
C2_ConnectWhileConnectedRejects ==
    [][ ret'.op = "connect" /\ connectState \in {Connecting, Connected} =>
            /\ ret'.outcome = "rejected"
            /\ UNCHANGED <<connectState, client, connectCallback, reconnect,
                           sockets, written, promises, timers>>
            /\ emitted' = <<>> ]_vars

C2_Witness ==
    /\ ret.op = "connect"
    /\ ret.outcome = "rejected"
    /\ connectState = Connected

\* C4: a step that changes the connection state emits exactly one 'state'
\* notification, carrying the new state, with 'connected' exactly when the new
\* state is Connected and 'disconnected' exactly when it is Disconnected; a step
\* that leaves the state alone emits none of the three; and a 'state'
\* notification never repeats the state of the one before it.
C4_OneNotificationPerChange ==
    [][ LET se == StateEvents(emitted')
            nc == Len(SelectSeq(emitted', LAMBDA x : x[1] = "connected"))
            nd == Len(SelectSeq(emitted', LAMBDA x : x[1] = "disconnected"))
        IN  IF connectState' # connectState
            THEN /\ Len(se) = 1
                 /\ se[1][2] = connectState'
                 /\ se[1][2] # lastStateEvent
                 /\ nc = (IF connectState' = Connected THEN 1 ELSE 0)
                 /\ nd = (IF connectState' = Disconnected THEN 1 ELSE 0)
            ELSE Len(se) = 0 /\ nc = 0 /\ nd = 0 ]_vars

\* a close event handled while already Reconnecting: updateState asked for the
\* state the client is in
C4_Witness ==
    /\ connectState = Reconnecting
    /\ emitted = <<>>
    /\ ret.op = "none"
    /\ ignoreTimers = 0
    /\ ~ignoreClose
    /\ \E s \in 1..Len(sockets) : s = client /\ sockets[s] = "closed"

\* C5: a socket timeout in state Connected moves to Reconnecting with one
\* 'error' event and one scheduled reconnect timer; the 'close' event of a
\* destroyed socket handled while Reconnecting, with the guard flag set or
\* reset, emits nothing and leaves exactly one timer scheduled; and that timer
\* firing makes one connect attempt.
IsTimeoutStep == \E i \in 1..Len(emitted') : emitted'[i] = <<"error", "", "Timeout reached">>

IsCloseStep ==
    \E s \in 1..Len(sockets) : sockets[s] = "closing" /\ sockets'[s] = "closed"

IsTimerStep == ret'.op = "none" /\ Cardinality(timers') < Cardinality(timers)

C5_TimeoutReconnectsOnce ==
    [][ /\ IsTimeoutStep /\ connectState = Connected =>
            /\ connectState' = Reconnecting
            /\ Names(emitted') = <<"error", "state">>
            /\ Cardinality(timers') = 1
            /\ reconnectTimeout' \in timers'
        /\ IsCloseStep /\ connectState = Reconnecting =>
            /\ connectState' = Reconnecting
            /\ emitted' = <<>>
            /\ Cardinality(timers') = 1
            /\ reconnectTimeout' \in timers'
            /\ Len(sockets') = Len(sockets)
        /\ IsTimerStep /\ connectState = Reconnecting =>
            /\ connectState' = Connecting
            /\ Len(sockets') = Len(sockets) + 1
            /\ timers' = {} ]_vars

\* the timeout handler ran on the connected socket: the socket is destroyed and
\* its close event is still to come, the guard flag is set
C5_Witness ==
    /\ connectState = Reconnecting
    /\ emitted = << <<"error", "", "Timeout reached">>,
                    <<"state", Reconnecting, "Timeout reached">> >>
    /\ ignoreClose
    /\ Cardinality(timers) = 1
    /\ client # 0
    /\ sockets[client] = "closing"
    /\ promises[client].status = "resolved"

\* C6: from state Reconnecting (with reconnection enabled and a connect
\* attempt left within the bound) the client reaches Connecting, unless the
\* application disconnects.
C6_ReconnectingLeadsToConnecting ==
    (connectState = Reconnecting /\ reconnect /\ Len(sockets) < MaxLiveSockets)
        ~> (connectState = Connecting \/ connectState = Disconnected)

\* C7: whenever the state is Disconnected no connect callback is stored and no
\* promise of a connect() call is pending.
C7_NoDanglingConnect ==
    connectState = Disconnected =>
        /\ connectCallback = 0
        /\ \A p \in 1..Len(promises) :
               promises[p].who = "caller" => promises[p].status # "pending"

\* C8: the reconnect timer's re-run of connect() leaves the stored connect
\* callback as it was; the stored callback is never the one of the internal
\* promise, and no internal promise is ever settled.
C8_OriginalCallbackKept ==
    [][ /\ IsTimerStep => connectCallback' = connectCallback
        /\ connectCallback' # 0 => promises'[connectCallback'].who = "caller"
        /\ \A p \in 1..Len(promises') :
               promises'[p].who = "internal" =>
                   promises'[p].status = "pending" /\ promises'[p].calls = 0 ]_vars

\* the first caller's promise was resolved by the welcome received on the
\* socket of an automatic attempt
C8_Witness ==
    /\ Len(promises) >= 2
    /\ promises[1].status = "resolved"
    /\ written[1] = <<>>
    /\ promises[2].who = "internal"
    /\ sockets[2] = "registered"
    /\ connectState = Connected
-----------------------------------------------------------------------------
\* Claims about the raw send

\* C9: a send (throwing when disconnected, the default) issued in a state other
\* than Connected throws and writes nothing to any socket.
C9_SendOnlyWhenConnected ==
    [][ ret'.op = "send" /\ ret'.arg = "throwIfDisconnected" /\ connectState # Connected =>
            ret'.outcome = "threw" /\ written' = written ]_vars
-----------------------------------------------------------------------------
\* Claims about the channel's join() and leave()

Slot(action) == IF action = "JOIN" THEN joinCallback ELSE partCallback

\* C3: a join() (leave()) made while connected and while an earlier one awaits
\* the server's answer writes no second line and returns the promise of the
\* earlier call; the first one, made with nothing pending, writes exactly one
\* line to the current socket.
C3_PendingJoinShared ==
    [][ ret'.op \in {"JOIN", "PART"} /\ connectState = Connected =>
            IF Slot(ret'.op) # 0
            THEN /\ written' = written
                 /\ ret'.outcome = "promise"
                 /\ ret'.value = Slot(ret'.op)
            ELSE /\ written' = [written EXCEPT ![client] = Append(@, ret'.op \o " " \o ChannelName)]
                 /\ ret'.outcome = "promise" ]_vars
-----------------------------------------------------------------------------
\* Claims about the identity cache

\* the key of a name, character by character: up to the first newline and at
\* most MaxNameLength characters, a space read as an underscore, upper case as lower case
RECURSIVE NormalizedKey(_, _)
NormalizedKey(name, room) ==
    IF name = <<>> \/ room = 0 \/ Head(name) = "\n" THEN <<>>
    ELSE LET ch == Head(name)
         IN  << IF ch = " " THEN "_" ELSE IF ch = "A" THEN "a" ELSE IF ch = "B" THEN "b" ELSE ch >>
                 \o NormalizedKey(Tail(name), room - 1)

\* C10: a getUser call returns the object the cache holds under the normalized
\* key of the name; whatever the step, an entry of the cache stays as it is; and
\* the cache never holds the same object under two keys, nor an entry under a
\* key that is not normalized.
C10_OneUserPerKey ==
    [][ /\ ret'.op = "getUser" =>
            LET key == NormalizedKey(ret'.arg, MaxNameLength)
            IN  /\ key \notin Inherited => key \in DOMAIN users' /\ users'[key].id = ret'.value
                /\ key \in DOMAIN users => ret'.value = users[key].id
        /\ users' # users =>
               \A k \in DOMAIN users : k \in DOMAIN users' /\ users'[k] = users[k]
        /\ \A k \in DOMAIN users' \ DOMAIN users :
               /\ NormalizedKey(k, MaxNameLength) = k
               /\ \A j \in DOMAIN users' : users'[j].id = users'[k].id => j = k ]_vars

\* after a reconnection, a name was looked up that differs in case and
\* whitespace from the one its user was created with
C10_Witness ==
    /\ ret.op = "getUser"
    /\ ret.arg = <<"a", "_", "B", "\n", "b">>
    /\ <<"a", "_", "b">> \in DOMAIN users
    /\ users[<<"a", "_", "b">>].username = <<"A", "_", "b">>
    /\ ret.value = users[<<"a", "_", "b">>].id
    /\ Long \in DOMAIN users
    /\ Len(sockets) = 2

\* a name the claim calls invalid: it does not start with "#", or holds a ","
InvalidName(name) ==
    \/ name = ""
    \/ Head(name) # "#"
    \/ \E i \in 1..Len(name) : SubSeq(name, i, i) = ","

\* a name getChannel accepts: a name that is not invalid and holds no U+0007
ValidName(name) ==
    /\ ~InvalidName(name)
    /\ \A i \in 1..Len(name) : SubSeq(name, i, i) # Bell

\* C11: getChannel with a valid name returns the object the cache holds under
\* that name, the one it held before if it held one, and leaves the other
\* entries alone; getChannel with an invalid name throws and leaves the cache as
\* it was; no two names share an object, and no other step changes the cache.
C11_ChannelCache ==
    [][ /\ ret'.op = "getChannel" =>
            LET name == ret'.arg
            IN  /\ InvalidName(name) => ret'.outcome = "threw"
                /\ ValidName(name) => ret'.outcome = "returned"
                /\ ret'.outcome = "threw" => channels' = channels
                /\ ret'.outcome = "returned" =>
                       /\ name \in DOMAIN channels'
                       /\ ret'.value = channels'[name].id
                       /\ name \in DOMAIN channels => channels' = channels
                       /\ DOMAIN channels' = DOMAIN channels \cup {name}
                       /\ \A k \in DOMAIN channels : channels'[k] = channels[k]
                       /\ \A k \in DOMAIN channels' : channels'[k].id = ret'.value => k = name
        /\ ret'.op # "getChannel" => channels' = channels ]_vars

\* a call with an invalid name threw, after calls with valid names filled the cache
C11_Witness ==
    /\ ret.op = "getChannel"
    /\ ret.outcome = "threw"
    /\ ret.arg = "#a,b"
    /\ DOMAIN channels = {"#a", "#A", "#mp_1"}
    /\ channels["#mp_1"].kind = "BanchoMultiplayerChannel"

\* C12: getUserById with a non-numeric id returns a rejected promise, makes no
\* request to the API and leaves both user caches alone; with an id the by-id
\* cache holds, it returns a promise resolved with the cached user and makes no
\* request.
C12_GetUserByIdRejectsOrHits ==
    [][ ret'.op = "getUserById" =>
            LET userid == ret'.arg
                p == ret'.value
            IN  /\ (\E i \in 1..Len(userid) : SubSeq(userid, i, i) \in {"a", "b", "c", "x"}) =>
                       /\ idPromises'[p].status = "rejected"
                       /\ lookups' = lookups
                       /\ users' = users
                       /\ usersById' = usersById
                /\ userid \in DOMAIN usersById =>
                       /\ idPromises'[p] = [status |-> "resolved", value |-> usersById[userid]]
                       /\ lookups' = lookups ]_vars
-----------------------------------------------------------------------------
\* More claims about the channel's join() and leave()

SlotOf(callbackProp) == IF callbackProp = "joinCallback" THEN joinCallback ELSE partCallback

OtherSlot(callbackProp) == IF callbackProp = "joinCallback" THEN partCallback ELSE joinCallback

\* the same slots after the step
SlotOfNext(callbackProp) == IF callbackProp = "joinCallback" THEN joinCallback' ELSE partCallback'

OtherSlotNext(callbackProp) == IF callbackProp = "joinCallback" THEN partCallback' ELSE joinCallback'

\* C13: the server's answer to a pending join (leave) settles its promise, which
\* was pending, by the one call of its callback: rejected with the server's
\* reason or resolved; the step leaves the connection state, the sockets and
\* the other operation's slot and promise as they were and empties the slot. A
\* join() (leave()) made while connected with its own slot empty writes its
\* line whatever the other slot holds, and touches neither the other slot nor
\* any earlier promise. A settled promise never changes again.
C13_AnswerSettlesOnce ==
    [][ /\ event'.kind \in {"joinCallback", "partCallback"} =>
            LET p == SlotOf(event'.kind)
            IN  /\ p # 0
                /\ chanPromises[p].status = "pending" /\ chanPromises[p].calls = 0
                /\ chanPromises' = [chanPromises EXCEPT
                       ![p] = [@ EXCEPT !.calls = 1,
                                        !.status = IF event'.arg = "" THEN "resolved" ELSE "rejected",
                                        !.err = event'.arg]]
                /\ SlotOfNext(event'.kind) = 0
                /\ OtherSlotNext(event'.kind) = OtherSlot(event'.kind)
                /\ UNCHANGED <<connectState, client, sockets, written, timers, reconnectTimeout>>
                /\ ~crashed'
        /\ ret'.op \in {"JOIN", "PART"} =>
            LET mine == IF ret'.op = "JOIN" THEN "joinCallback" ELSE "partCallback"
            IN  /\ OtherSlotNext(mine) = OtherSlot(mine)
                /\ \A p \in 1..Len(chanPromises) : chanPromises'[p] = chanPromises[p]
                /\ SlotOf(mine) = 0 /\ connectState = Connected =>
                       /\ written' = [written EXCEPT ![client] = Append(@, ret'.op \o " " \o ChannelName)]
                       /\ SlotOfNext(mine) = Len(chanPromises')
                       /\ chanPromises'[SlotOfNext(mine)].status = "pending"
        /\ \A p \in 1..Len(chanPromises) :
               chanPromises[p].status # "pending" => chanPromises'[p] = chanPromises[p] ]_vars

\* the server refused the join while a leave was waiting for its answer
C13_Witness ==
    /\ event.kind = "joinCallback"
    /\ event.arg = "No such channel"
    /\ joinCallback = 0
    /\ partCallback # 0
    /\ chanPromises[partCallback].status = "pending"
    /\ \E p \in 1..Len(chanPromises) :
           chanPromises[p] = [action |-> "JOIN", socket |-> client, status |-> "rejected",
                              calls |-> 1, err |-> "No such channel"]
    /\ connectState = Connected
-----------------------------------------------------------------------------
\* Claims about the data handler and the command router

\* One pass over a byte stream: the lines ended so far and the fragment after
\* the last newline, carriage returns left out.
RECURSIVE Scan(_, _, _)
Scan(bytes, lines, fragment) ==
    IF bytes = "" THEN [lines |-> lines, fragment |-> fragment]
    ELSE IF Head(bytes) = "\n" THEN Scan(Tail(bytes), Append(lines, fragment), "")
    ELSE IF Head(bytes) = "\r" THEN Scan(Tail(bytes), lines, fragment)
    ELSE Scan(Tail(bytes), lines, fragment \o Head(bytes))

\* C14: on every socket, whatever the chunks were, the commands handed to
\* handleIrcCommand followed by what the buffer still holds are the lines and
\* the unterminated fragment of the bytes received; and the buffer holds no
\* complete line once the handler has returned.
C14_FramedLines ==
    \A s \in 1..Len(sockets) :
        LET all  == Scan(received[s], <<>>, "")
            kept == Scan(unparsedData[s], <<>>, "")
        IN  /\ all.lines = handed[s] \o kept.lines
            /\ all.fragment = kept.fragment
            /\ ~crashed => kept.lines = <<>> /\ unparsedData[s] = all.fragment

\* a stream with carriage returns was received in several chunks, the last
\* one ending inside a line
C14_Witness ==
    /\ stream = "a\r\nPING :b\r\nc"
    /\ event.kind = "data"
    /\ received[1] = stream
    /\ handed[1] = <<"a", "PING :b">>
    /\ unparsedData[1] = "c"
    /\ written[1] = <<"PASS", "USER", "NICK", "PONG :b">>
    /\ ~crashed

IsPing(command) == command = "PING" \/ startsWith(command, "PING ")

\* C15: the data handler answers every line it hands over whose first token
\* is PING with one line "PONG " and the rest of the line, written to the
\* current socket, writes nothing else, and emits no application event for such
\* a line.
C15_PingAnswered ==
    [][ event'.kind = "data" =>
            LET s     == event'.socket
                new   == SubSeq(handed'[s], Len(handed[s]) + 1, Len(handed'[s]))
                pings == SelectSeq(new, IsPing)
                pongs == [i \in 1..Len(pings) |-> "PONG " \o SubSeq(pings[i], 6, Len(pings[i]))]
            IN  /\ ~crashed'
                /\ written' = IF pings = <<>> THEN written
                              ELSE [written EXCEPT ![client] = @ \o pongs]
                /\ \A i \in 1..Len(emitted') : ~IsPing(emitted'[i][3]) ]_vars
-----------------------------------------------------------------------------
\* More claims about the connection lifecycle

\* C16: on every socket the first three lines written are PASS, USER and NICK,
\* in that order: no other line is written to a socket before them.
C16_AuthLinesFirst ==
    \A s \in 1..Len(written) :
        \A i \in 1..Len(written[s]) :
            i <= 3 => written[s][i] = <<"PASS", "USER", "NICK">>[i]

\* C17: the callback of a connect() call is called at most once; a step that
\* calls it finds it stored and leaves the slot empty; and a callback that was
\* called is never stored again.
C17_ConnectCallbackOnce ==
    [][ \A p \in 1..Len(promises) :
            /\ promises'[p].calls <= 1
            /\ promises'[p].calls > promises[p].calls =>
                   connectCallback = p /\ connectCallback' = 0
            /\ promises'[p].calls = 1 => connectCallback' # p ]_vars

\* the first connect() was rejected by the server's refusal; the welcome of a
\* later attempt found no callback to call
C17_Witness ==
    /\ Len(promises) >= 2
    /\ promises[1] = [who |-> "caller", status |-> "rejected", calls |-> 1]
    /\ event = [kind |-> "welcome", socket |-> 2, arg |-> ""]
    /\ connectState = Connected
    /\ connectCallback = 0

\* C18: a reconnect timer is scheduled only while the state is Reconnecting.
C18_TimerOnlyWhileReconnecting ==
    (timers # {} \/ reconnectTimeout # 0) => connectState = Reconnecting

\* C19: an error, close or timeout event of a socket that is not the current
\* one, handled while Connecting or Connected, leaves the state and the
\* reconnect timer as they were.
C19_ReplacedSocketIgnored ==
    [][ /\ event'.kind \in {"error", "close", "timeout"}
        /\ event'.socket # client
        /\ connectState \in {Connecting, Connected}
        => /\ connectState' = connectState
           /\ timers' = timers
           /\ reconnectTimeout' = reconnectTimeout ]_vars

\* C20: a join() (leave()) made while connected, when the slot holds the
\* callback of a line written to an earlier socket, writes a new line to the
\* current socket.
C20_PendingJoinEndsWithConnection ==
    [][ /\ ret'.op \in {"JOIN", "PART"}
        /\ connectState = Connected
        /\ Slot(ret'.op) # 0
        /\ chanPromises[Slot(ret'.op)].socket # client
        => written' = [written EXCEPT ![client] = Append(@, ret'.op \o " " \o ChannelName)] ]_vars
====
